---- MODULE Spec2Model ----
(***************************************************************************)
(* dev-scheduler: the task lifecycle orchestrator.                         *)
(*                                                                         *)
(* TaskProcessor.process_task (transitions.py) drives one task through    *)
(* in-progress write -> agent invocation with retries -> done write, on   *)
(* top of ClaudeRunner (claude_runner.py) and NotionTaskClient            *)
(* (notion_client.py).  The store, the agent executable and time.sleep    *)
(* are the environment: every call made to them is appended to `calls`,   *)
(* and their outcome (a store write raising, the way the agent process    *)
(* ends) is chosen nondeterministically.                                   *)
(***************************************************************************)
EXTENDS Integers, Sequences, FiniteSets, TLC

\* ------------------------------------------------------------ bounds
\* largest configured max_retries explored (0 .. MaxRetries)
MaxRetries == 2
\* length of a short text (stderr, stdout, result field)
ShortLen == 12
\* length of a text longer than the store's length cap
LongLen == 2500

\* ------------------------------------------------------------ constants
\* content[:2000] in add_comment / value[:2000] in update_task_property
NotionLimit == 2000
\* result.output[:2000] in process_task
PlanOutputCap == 2000
\* len("[dev-scheduler] Error: ")
ErrorPrefixLen == 23
\* len("[dev-scheduler] Session ID: ")
SessionPrefixLen == 28
\* len("Claude exited with code 1")
ExitCodeMsgLen == 25
\* len("Claude Code timed out after 600s")
TimeoutMsgLen == 32
\* len("Claude Code CLI not found: claude")
NotFoundMsgLen == 33
\* len("No attempts made")
NoAttemptsMsgLen == 16
\* Settings.retry_backoff_base
BackoffBase == 2

\* ------------------------------------------------------------ status model
\* the members of enum TaskStatus, in declaration order
TaskStatus ==
    << "REQUIREMENT", "DESIGN_IN_PROGRESS",
       "TO_PLAN", "PLANNING", "PLANNED",
       "READY_TO_IMPLEMENT", "IMPLEMENT_IN_PROGRESS", "IMPLEMENT_DONE",
       "READY_TO_REVIEW", "REVIEW_IN_PROGRESS", "REVIEW_DONE",
       "READY_TO_RELEASE", "RELEASE_IN_PROGRESS", "RELEASE_DONE" >>

Members == { TaskStatus[i] : i \in 1..Len(TaskStatus) }

\* the variant of StatusValue in which two members have the same value
StatusValue_Alias(m) ==
    CASE m = "REQUIREMENT"           -> "Requirement"
      [] m = "DESIGN_IN_PROGRESS"    -> "DesignInProgress"
      [] m = "TO_PLAN"               -> "ToPlan"
      [] m = "PLANNING"              -> "Planned"
      [] m = "PLANNED"               -> "Planned"
      [] m = "READY_TO_IMPLEMENT"    -> "ReadyToImplement"
      [] m = "IMPLEMENT_IN_PROGRESS" -> "ImplementInProgress"
      [] m = "IMPLEMENT_DONE"        -> "ImplementDone"
      [] m = "READY_TO_REVIEW"       -> "ReadyToReview"
      [] m = "REVIEW_IN_PROGRESS"    -> "ReviewInProgress"
      [] m = "REVIEW_DONE"           -> "ReviewDone"
      [] m = "READY_TO_RELEASE"      -> "ReadyToRelease"
      [] m = "RELEASE_IN_PROGRESS"   -> "ReleaseInProgress"
      [] m = "RELEASE_DONE"          -> "ReleaseDone"

\* member.value: the external token of each member
StatusValue(m) ==
    CASE m = "REQUIREMENT"           -> "Requirement"
      [] m = "DESIGN_IN_PROGRESS"    -> "DesignInProgress"
      [] m = "TO_PLAN"               -> "ToPlan"
      [] m = "PLANNING"              -> "Planning"
      [] m = "PLANNED"               -> "Planned"
      [] m = "READY_TO_IMPLEMENT"    -> "ReadyToImplement"
      [] m = "IMPLEMENT_IN_PROGRESS" -> "ImplementInProgress"
      [] m = "IMPLEMENT_DONE"        -> "ImplementDone"
      [] m = "READY_TO_REVIEW"       -> "ReadyToReview"
      [] m = "REVIEW_IN_PROGRESS"    -> "ReviewInProgress"
      [] m = "REVIEW_DONE"           -> "ReviewDone"
      [] m = "READY_TO_RELEASE"      -> "ReadyToRelease"
      [] m = "RELEASE_IN_PROGRESS"   -> "ReleaseInProgress"
      [] m = "RELEASE_DONE"          -> "ReleaseDone"

Tokens == { StatusValue(m) : m \in Members }

AI_TRIGGER_STATUSES == { "TO_PLAN", "READY_TO_IMPLEMENT" }

\* the variant of AI_TRANSITIONS with an entry for a stage that is no trigger
AI_TRANSITIONS_ExtraEntry ==
    { << "TO_PLAN", << "PLANNING", "PLANNED" >> >>,
      << "PLANNED", << "READY_TO_IMPLEMENT", "IMPLEMENT_IN_PROGRESS" >> >>,
      << "READY_TO_IMPLEMENT", << "IMPLEMENT_IN_PROGRESS", "IMPLEMENT_DONE" >> >> }

\* the variant of AI_TRANSITIONS without the entry of READY_TO_IMPLEMENT
AI_TRANSITIONS_OneEntry ==
    { << "TO_PLAN", << "PLANNING", "PLANNED" >> >> }

\* the variant of AI_TRANSITIONS whose done stage of TO_PLAN is one stage too far
AI_TRANSITIONS_SkipsStage ==
    { << "TO_PLAN", << "PLANNING", "READY_TO_IMPLEMENT" >> >>,
      << "READY_TO_IMPLEMENT", << "IMPLEMENT_IN_PROGRESS", "IMPLEMENT_DONE" >> >> }

\* AI_TRANSITIONS as a set of <<trigger, <<in-progress, done>>>> entries
AI_TRANSITIONS ==
    { << "TO_PLAN", << "PLANNING", "PLANNED" >> >>,
      << "READY_TO_IMPLEMENT", << "IMPLEMENT_IN_PROGRESS", "IMPLEMENT_DONE" >> >> }

\* AI_TRANSITIONS.get(status): the pair, or <<>> (None) when there is no entry
TransitionGet(status) ==
    IF \E e \in AI_TRANSITIONS : e[1] = status
    THEN (CHOOSE e \in AI_TRANSITIONS : e[1] = status)[2]
    ELSE << >>

\* ------------------------------------------------------------ texts
\* A str is modelled by where it comes from and how long it is.
\* tag names the fixed prefix put in front of it, if any.
\* The empty string is the same whatever it comes from.
Text(src, len) == [tag |-> "", src |-> IF len = 0 THEN "" ELSE src, len |-> len]
EmptyText == Text("", 0)

Min(a, b) == IF a < b THEN a ELSE b

\* s[:n]
Truncate(s, n) == [s EXCEPT !.len = Min(s.len, n)]

\* f"<prefix>{s}" with a prefix of prefixLen characters
Prefixed(tag, prefixLen, s) == [tag |-> tag, src |-> s.src, len |-> prefixLen + s.len]

\* bool(s)
Truthy(s) == s.len > 0

\* ------------------------------------------------------------ agent adapter
\* project_path values: unset, an existing directory, a path that does not
\* exist, an existing regular file, a path with an embedded null byte
ProjectPaths == { "", "/proj", "/missing", "/proj/file.txt", "/proj<NUL>" }

IsDir(p) == p = "/proj"

\* ClaudeRunner._resolve_project_path: None for an unset path, the resolved
\* path for an existing directory, ValueError otherwise (Path.resolve() or
\* is_dir() rejects a null byte before the explicit test is reached)
ResolveProjectPath(project_path) ==
    IF project_path = ""
    THEN [raises |-> "", cwd |-> "None"]
    ELSE IF ~IsDir(project_path)
    THEN [raises |-> "ValueError", cwd |-> "None"]
    ELSE [raises |-> "", cwd |-> project_path]

ClaudeResult(success, output, session_id, error) ==
    [success |-> success, output |-> output, session_id |-> session_id, error |-> error]

\* the fields of the JSON object the agent may print
Absent == [present |-> FALSE, text |-> EmptyText]
Field(t) == [present |-> TRUE, text |-> t]

Stdout(form, len, result, session_id) ==
    [form |-> form, text |-> Text("stdout", len), result |-> result, session_id |-> session_id]

NoStdout == Stdout("raw", 0, Absent, "")

ProcessEnd(kind, returncode, stdout, stderr) ==
    [kind |-> kind, returncode |-> returncode, stdout |-> stdout, stderr |-> stderr]

\* every way subprocess.run can end
ProcessEnds ==
    { ProcessEnd("exit", 1, NoStdout, e) : e \in { EmptyText, Text("stderr", ShortLen) } }
    \cup { ProcessEnd(k, 0, NoStdout, EmptyText) :
             k \in { "TimeoutExpired", "FileNotFoundError", "PermissionError" } }
    \cup { ProcessEnd("exit", 0, Stdout("raw", n, Absent, ""), EmptyText) :
             n \in { 0, ShortLen, LongLen } }
    \cup { ProcessEnd("exit", 0, Stdout("object", ShortLen, Absent, sid), EmptyText) :
             sid \in { "", "sess-1" } }
    \cup { ProcessEnd("exit", 0,
                      Stdout("object", ShortLen + n, Field(Text("result", n)), sid),
                      EmptyText) :
             n \in { 0, ShortLen, LongLen }, sid \in { "", "sess-1" } }
    \cup { ProcessEnd("exit", 0, Stdout("nonobject", ShortLen, Absent, ""), EmptyText) }

\* the ways subprocess.run ends in the runs of the scheduler: a failure, a success
\* with a session id, and an exception _run_claude does not catch
SchedEnds ==
    { ProcessEnd("exit", 1, NoStdout, Text("stderr", ShortLen)),
      ProcessEnd("exit", 0,
                 Stdout("object", 2 * ShortLen, Field(Text("result", ShortLen)), "sess-1"),
                 EmptyText),
      ProcessEnd("PermissionError", 0, NoStdout, EmptyText) }

\* ClaudeRunner._run_claude from subprocess.run on: what the call returns or raises
Normalize(end) ==
    CASE end.kind = "TimeoutExpired" ->
           [raises |-> "",
            result |-> ClaudeResult(FALSE, EmptyText, "", Text("timed out", TimeoutMsgLen))]
      [] end.kind = "FileNotFoundError" ->
           [raises |-> "",
            result |-> ClaudeResult(FALSE, EmptyText, "", Text("not found", NotFoundMsgLen))]
      [] end.kind = "exit" /\ end.returncode # 0 ->
           [raises |-> "",
            result |-> ClaudeResult(FALSE, EmptyText, "",
                                    IF Truthy(end.stderr) THEN end.stderr
                                    ELSE Text("exit code", ExitCodeMsgLen))]
      [] end.kind = "exit" /\ end.returncode = 0 /\ end.stdout.form = "raw" ->
           [raises |-> "", result |-> ClaudeResult(TRUE, end.stdout.text, "", EmptyText)]
      [] end.kind = "exit" /\ end.returncode = 0 /\ end.stdout.form = "object" ->
           [raises |-> "",
            result |-> ClaudeResult(TRUE,
                                    IF end.stdout.result.present
                                    THEN end.stdout.result.text ELSE end.stdout.text,
                                    end.stdout.session_id, EmptyText)]
      [] end.kind = "exit" /\ end.returncode = 0 /\ end.stdout.form = "nonobject" ->
           [raises |-> "AttributeError", result |-> ClaudeResult(FALSE, EmptyText, "", EmptyText)]
      [] OTHER ->
           [raises |-> end.kind, result |-> ClaudeResult(FALSE, EmptyText, "", EmptyText)]

\* ClaudeRunner._run_claude(prompt, project_path, session_id) when the process,
\* if launched, ends as `end`: the outcome and whether subprocess.run was called
RunClaude(prompt, project_path, session_id, end) ==
    LET r == ResolveProjectPath(project_path) IN
    IF r.raises # ""
    THEN [raises |-> r.raises, result |-> ClaudeResult(FALSE, EmptyText, "", EmptyText),
          launched |-> FALSE, cwd |-> "None", resume |-> ""]
    ELSE [raises |-> Normalize(end).raises, result |-> Normalize(end).result,
          launched |-> TRUE, cwd |-> r.cwd, resume |-> session_id]

\* ------------------------------------------------------------ state
VARIABLES
    task,         \* the Task handed to process_task
    max_retries,  \* TaskProcessor._max_retries
    pc,           \* position of the thread of control
    attempt,      \* _run_with_retries: the loop variable
    last_result,  \* _run_with_retries: last_result / process_task: result
    ret,          \* how process_task ended: "True", "False" or the exception raised
    store,        \* the Task Store: the Status token of every page
    calls,        \* every call made to the store, the adapter, subprocess.run, time.sleep
    running,      \* Scheduler._running
    spc,          \* position of Scheduler.run ("harness": process_task is called directly)
    tasks,        \* _poll_cycle: the list the query returned
    idx,          \* _poll_cycle: position of the for loop in tasks
    cycles,       \* number of poll cycles begun
    signal,       \* SIGINT/SIGTERM given to the event loop: "none", "pending", "handled"
    sig_idx,      \* the position in the batch at which the signal arrived (0: in the sleep)
    input,        \* the call under study of a function of models.py or notion_client.py
    output        \* what that call has returned so far

\* the scheduler's part of the state
svars == << running, spc, tasks, idx, cycles, signal, sig_idx >>

\* the part of the state used when one function is studied on its own
dvars == << input, output >>

vars == << task, max_retries, pc, attempt, last_result, ret, store, calls,
           running, spc, tasks, idx, cycles, signal, sig_idx, input, output >>

PageIds == { "page-1", "page-2" }
SessionIds == { "", "sess-0" }

Task(page_id, status, project_path, session_id) ==
    [page_id |-> page_id, status |-> status,
     project_path |-> project_path, session_id |-> session_id]

Call(op, page, arg, ok) == [op |-> op, page |-> page, arg |-> arg, ok |-> ok]

NoResult == ClaudeResult(FALSE, EmptyText, "", EmptyText)

RECURSIVE Pow(_, _)
Pow(b, e) == IF e = 0 THEN 1 ELSE b * Pow(b, e - 1)

\* A processor built on a store and an agent, and one task to process.
Init ==
    /\ task \in { Task(p, s, d, sid) :
                    p \in PageIds, s \in Members, d \in ProjectPaths, sid \in SessionIds }
    /\ max_retries \in 0..MaxRetries
    /\ pc = "process_task"
    /\ attempt = 0
    /\ last_result = NoResult
    /\ ret = "pending"
    /\ store = [p \in PageIds |-> IF p = task.page_id THEN StatusValue(task.status)
                                  ELSE "Requirement"]
    /\ calls = << >>
    /\ running = FALSE
    /\ spc = "harness"
    /\ tasks = << >>
    /\ idx = 0
    /\ cycles = 0
    /\ signal = "none"
    /\ sig_idx = 0
    /\ input = << >>
    /\ output = << >>

\* ------------------------------------------------------------ task processor
\* the variant of the initial outcome that counts as a success
InitialResult_Success ==
    ClaudeResult(TRUE, EmptyText, "", Text("No attempts made", NoAttemptsMsgLen))

\* _run_with_retries, line 100: the outcome before any attempt
InitialResult ==
    ClaudeResult(FALSE, EmptyText, "", Text("No attempts made", NoAttemptsMsgLen))

\* the variant of in_progress_status that takes the key of the entry
in_progress_status_Key == task.status

in_progress_status == TransitionGet(task.status)[1]
done_status == TransitionGet(task.status)[2]

\* process_task, lines 41-44: no transition for the task's status
NoTransition ==
    /\ pc = "process_task"
    /\ TransitionGet(task.status) = << >>
    /\ ret' = "False"
    /\ pc' = "returned"
    /\ UNCHANGED << task, max_retries, attempt, last_result, store, calls >>
    /\ UNCHANGED svars
    /\ UNCHANGED dvars

\* the variant of MoveToInProgress that goes on when the write raises
MoveToInProgress_GoesOn ==
    /\ pc = "process_task"
    /\ TransitionGet(task.status) # << >>
    /\ \E ok \in BOOLEAN :
         /\ calls' = Append(calls, Call("update_task_status", task.page_id,
                                        StatusValue(in_progress_status), ok))
         /\ store' = IF ok
                     THEN [store EXCEPT ![task.page_id] = StatusValue(in_progress_status)]
                     ELSE store
    /\ last_result' = InitialResult
    /\ attempt' = 1
    /\ pc' = "retry_loop"
    /\ UNCHANGED << task, max_retries, ret >>
    /\ UNCHANGED svars
    /\ UNCHANGED dvars

\* process_task, lines 46-60: the in-progress write, then into _run_with_retries
MoveToInProgress ==
    /\ pc = "process_task"
    /\ TransitionGet(task.status) # << >>
    /\ \E ok \in BOOLEAN :
         /\ calls' = Append(calls, Call("update_task_status", task.page_id,
                                        StatusValue(in_progress_status), ok))
         /\ IF ok
            THEN /\ store' = [store EXCEPT ![task.page_id] = StatusValue(in_progress_status)]
                 /\ last_result' = InitialResult
                 /\ attempt' = 1
                 /\ pc' = "retry_loop"
                 /\ UNCHANGED ret
            ELSE /\ ret' = "APIResponseError"
                 /\ pc' = "returned"
                 /\ UNCHANGED << store, last_result, attempt >>
    /\ UNCHANGED << task, max_retries >>
    /\ UNCHANGED svars
    /\ UNCHANGED dvars

\* the adapter method _run_with_retries picks for the task's status
AdapterMethod(status) ==
    CASE status = "TO_PLAN" -> "run_planning"
      [] status = "READY_TO_IMPLEMENT" -> "run_implementation"
      [] OTHER -> "none"

\* the variant of InRange that stops one iteration early
InRange_OffByOne(i, n) == i < n

\* range(1, max_retries + 1): whether the loop has another iteration
InRange(i, n) == i <= n

\* _run_with_retries, lines 110-117: the call the attempt makes, when the
\* process, if launched, ends as `end`
Invoke(t, end) ==
    IF AdapterMethod(t.status) = "none"
    THEN [raises |-> "",
          result |-> ClaudeResult(FALSE, EmptyText, "", Text("Unknown AI stage", ShortLen)),
          launched |-> FALSE, cwd |-> "None", resume |-> ""]
    ELSE RunClaude(AdapterMethod(t.status), t.project_path, t.session_id, end)

\* the variant of AfterAttempt that also waits after the last attempt
AfterAttempt_WaitsAfterLast(result, i, n) ==
    IF result.success THEN "result" ELSE "backoff"

\* the variant of AfterAttempt that does not return on success
AfterAttempt_IgnoresSuccess(result, i, n) ==
    IF i < n THEN "backoff" ELSE "retry_loop"

\* _run_with_retries, lines 119-126: where control goes after an attempt
\* that returned `result`
AfterAttempt(result, i, n) ==
    IF result.success THEN "result"
    ELSE IF i < n THEN "backoff"
    ELSE "retry_loop"

\* the ends of subprocess.run the environment offers in the present run
AgentEnds == IF spc = "harness" THEN ProcessEnds ELSE SchedEnds

\* _run_with_retries, lines 102-126: one iteration of the loop
Attempt ==
    /\ pc = "retry_loop"
    /\ InRange(attempt, max_retries)
    /\ \E end \in AgentEnds :
         LET m == AdapterMethod(task.status)
             o == Invoke(task, end)
             call == IF m = "none" THEN << >>
                     ELSE << Call(m, task.page_id,
                                  [raises |-> o.raises, result |-> o.result,
                                   session_id |-> task.session_id],
                                  o.raises = "") >>
             launch == IF o.launched
                       THEN << Call("subprocess_run", task.page_id,
                                    [prompt |-> m, cwd |-> o.cwd, resume |-> o.resume,
                                     end |-> end.kind, returncode |-> end.returncode],
                                    o.raises = "") >>
                       ELSE << >>
         IN  /\ calls' = calls \o call \o launch
             /\ IF o.raises # ""
                THEN /\ ret' = o.raises
                     /\ pc' = "returned"
                     /\ UNCHANGED << last_result, attempt >>
                ELSE /\ last_result' = o.result
                     /\ pc' = AfterAttempt(o.result, attempt, max_retries)
                     /\ attempt' = IF pc' = "retry_loop" THEN attempt + 1 ELSE attempt
                     /\ UNCHANGED ret
    /\ UNCHANGED << task, max_retries, store >>
    /\ UNCHANGED svars
    /\ UNCHANGED dvars

\* _run_with_retries, lines 122-126: the wait before the next attempt
Backoff ==
    /\ pc = "backoff"
    /\ calls' = Append(calls, Call("sleep", task.page_id, Pow(BackoffBase, attempt), TRUE))
    /\ attempt' = attempt + 1
    /\ pc' = "retry_loop"
    /\ UNCHANGED << task, max_retries, last_result, ret, store >>
    /\ UNCHANGED svars
    /\ UNCHANGED dvars

\* _run_with_retries, line 128: the loop is over without a success
Exhausted ==
    /\ pc = "retry_loop"
    /\ ~InRange(attempt, max_retries)
    /\ pc' = "result"
    /\ UNCHANGED << task, max_retries, attempt, last_result, ret, store, calls >>
    /\ UNCHANGED svars
    /\ UNCHANGED dvars

\* the variant of ShouldStorePlan that forgets the stage test
ShouldStorePlan_AnyStage(t, result) == Truthy(result.output)

\* process_task, line 65: the plan text is stored for a planning task with output
ShouldStorePlan(t, result) == t.status = "TO_PLAN" /\ Truthy(result.output)

\* the variant of StorePlan that lets a failed write propagate
StorePlan_Propagates ==
    /\ pc = "result"
    /\ last_result.success
    /\ IF ShouldStorePlan(task, last_result)
       THEN \E ok \in BOOLEAN :
              /\ calls' = Append(calls,
                   Call("update_task_property", task.page_id,
                        [name |-> "PlanOutput",
                         value |-> Truncate(Truncate(last_result.output, PlanOutputCap),
                                            NotionLimit)],
                        ok))
              /\ pc' = IF ok THEN "store_session" ELSE "returned"
              /\ ret' = IF ok THEN ret ELSE "APIResponseError"
       ELSE UNCHANGED << calls, ret >> /\ pc' = "store_session"
    /\ UNCHANGED << task, max_retries, attempt, last_result, store >>
    /\ UNCHANGED svars
    /\ UNCHANGED dvars

\* process_task, lines 64-71: the plan text, best effort
StorePlan ==
    /\ pc = "result"
    /\ last_result.success
    /\ IF ShouldStorePlan(task, last_result)
       THEN \E ok \in BOOLEAN :
              calls' = Append(calls,
                  Call("update_task_property", task.page_id,
                       [name |-> "PlanOutput",
                        value |-> Truncate(Truncate(last_result.output, PlanOutputCap),
                                           NotionLimit)],
                       ok))
       ELSE UNCHANGED calls
    /\ pc' = "store_session"
    /\ UNCHANGED << task, max_retries, attempt, last_result, ret, store >>
    /\ UNCHANGED svars
    /\ UNCHANGED dvars

\* process_task, lines 73-81: the session id comment, best effort
StoreSession ==
    /\ pc = "store_session"
    /\ IF last_result.session_id # ""
       THEN \E ok \in BOOLEAN :
              calls' = Append(calls,
                  Call("add_comment", task.page_id,
                       Truncate(Prefixed("Session ID", SessionPrefixLen,
                                         Text(last_result.session_id, ShortLen)),
                                NotionLimit),
                       ok))
       ELSE UNCHANGED calls
    /\ pc' = "move_to_done"
    /\ UNCHANGED << task, max_retries, attempt, last_result, ret, store >>
    /\ UNCHANGED svars
    /\ UNCHANGED dvars

\* the variant of MoveToDone that returns True although the write raised
MoveToDone_Swallows ==
    /\ pc = "move_to_done"
    /\ \E ok \in BOOLEAN :
         /\ calls' = Append(calls, Call("update_task_status", task.page_id,
                                        StatusValue(done_status), ok))
         /\ store' = IF ok THEN [store EXCEPT ![task.page_id] = StatusValue(done_status)]
                     ELSE store
    /\ ret' = "True"
    /\ pc' = "returned"
    /\ UNCHANGED << task, max_retries, attempt, last_result >>
    /\ UNCHANGED svars
    /\ UNCHANGED dvars

\* process_task, lines 83-85: the done write and the return
MoveToDone ==
    /\ pc = "move_to_done"
    /\ \E ok \in BOOLEAN :
         /\ calls' = Append(calls, Call("update_task_status", task.page_id,
                                        StatusValue(done_status), ok))
         /\ IF ok
            THEN /\ store' = [store EXCEPT ![task.page_id] = StatusValue(done_status)]
                 /\ ret' = "True"
            ELSE /\ ret' = "APIResponseError"
                 /\ UNCHANGED store
    /\ pc' = "returned"
    /\ UNCHANGED << task, max_retries, attempt, last_result >>
    /\ UNCHANGED svars
    /\ UNCHANGED dvars

\* the variant of ReportFailure that puts the task back into its trigger stage
ReportFailure_RollsBack ==
    /\ pc = "result"
    /\ ~last_result.success
    /\ \E ok \in BOOLEAN :
         calls' = calls \o
             << Call("add_comment", task.page_id,
                     Truncate(Prefixed("Error", ErrorPrefixLen, last_result.error),
                              NotionLimit),
                     ok),
                Call("update_task_status", task.page_id, StatusValue(task.status), TRUE) >>
    /\ store' = [store EXCEPT ![task.page_id] = StatusValue(task.status)]
    /\ ret' = "False"
    /\ pc' = "returned"
    /\ UNCHANGED << task, max_retries, attempt, last_result >>
    /\ UNCHANGED svars
    /\ UNCHANGED dvars

\* process_task, lines 86-96: the error comment, best effort, and the return
ReportFailure ==
    /\ pc = "result"
    /\ ~last_result.success
    /\ \E ok \in BOOLEAN :
         calls' = Append(calls,
             Call("add_comment", task.page_id,
                  Truncate(Prefixed("Error", ErrorPrefixLen, last_result.error), NotionLimit),
                  ok))
    /\ ret' = "False"
    /\ pc' = "returned"
    /\ UNCHANGED << task, max_retries, attempt, last_result, store >>
    /\ UNCHANGED svars
    /\ UNCHANGED dvars

Next ==
    \/ NoTransition
    \/ MoveToInProgress
    \/ Attempt
    \/ Backoff
    \/ Exhausted
    \/ StorePlan
    \/ StoreSession
    \/ MoveToDone
    \/ ReportFailure

Spec == Init /\ [][Next]_vars

\* ------------------------------------------------------------ observations
Returned == pc = "returned"

StageWrites == SelectSeq(calls, LAMBDA c : c.op = "update_task_status")
PropertyWrites == SelectSeq(calls, LAMBDA c : c.op = "update_task_property")
Comments == SelectSeq(calls, LAMBDA c : c.op = "add_comment")
StoreWrites ==
    SelectSeq(calls, LAMBDA c : c.op \in { "update_task_status", "update_task_property",
                                            "add_comment" })
AdapterCalls == SelectSeq(calls, LAMBDA c : c.op \in { "run_planning", "run_implementation" })
Launches == SelectSeq(calls, LAMBDA c : c.op = "subprocess_run")
Sleeps == SelectSeq(calls, LAMBDA c : c.op = "sleep")

\* the adapter call returned an outcome, and the outcome is a failure / a success
ReturnedFailure(c) == c.ok /\ ~c.arg.result.success
ReturnedSuccess(c) == c.ok /\ c.arg.result.success

IsStageWrite(c, status) == c.op = "update_task_status" /\ c.arg = StatusValue(status)

\* the retry loop ended with an invocation that returned success
AgentSucceeded == Len(AdapterCalls) >= 1 /\ ReturnedSuccess(AdapterCalls[Len(AdapterCalls)])

Last(q) == q[Len(q)]

\* ------------------------------------------------------------ claims

\* C1: the task is in a trigger stage, max_retries = N >= 1, the agent is
\* invoked and every invocation returns a failure outcome
C1_Scenario ==
    /\ Returned
    /\ task.status \in AI_TRIGGER_STATUSES
    /\ max_retries >= 1
    /\ Len(AdapterCalls) >= 1
    /\ \A i \in 1..Len(AdapterCalls) : ReturnedFailure(AdapterCalls[i])

\* C1: when every agent invocation for a trigger-stage task returns a failure
\* outcome and N >= 1, process_task has invoked the adapter exactly N times,
\* has issued the in-progress stage write and no done stage write, has
\* attempted exactly one error annotation, which carries the error text of
\* the N-th attempt, and returns False.
C1_ExhaustedFailure ==
    C1_Scenario =>
        /\ Len(AdapterCalls) = max_retries
        /\ \E i \in 1..Len(calls) : IsStageWrite(calls[i], in_progress_status)
        /\ ~\E i \in 1..Len(calls) : IsStageWrite(calls[i], done_status)
        /\ Len(Comments) = 1
        /\ Comments[1].arg =
             Truncate(Prefixed("Error", ErrorPrefixLen, Last(AdapterCalls).arg.result.error),
                      NotionLimit)
        /\ Comments[1] = Last(calls)
        /\ ret = "False"

\* C1 witness: two failed attempts with different error texts, then the return
C1_Witness ==
    /\ C1_Scenario
    /\ max_retries = 2
    /\ Len(AdapterCalls) = 2
    /\ AdapterCalls[1].arg.result.error # AdapterCalls[2].arg.result.error

\* C2: the task is in ToPlan and the last agent invocation returned success
C2_Scenario ==
    /\ Returned
    /\ task.status = "TO_PLAN"
    /\ Len(AdapterCalls) >= 1
    /\ ReturnedSuccess(Last(AdapterCalls))

\* C2: for a ToPlan task whose agent invocations fail on attempts 1..k-1 and
\* succeed on attempt k <= N, the adapter is invoked exactly k times: no
\* invocation ever follows one that returned success, and every invocation
\* before it returned failure; the plan-property write is issued when the
\* output is non-empty; the last stage write is Planned; and process_task
\* returns True (the done write itself not raising, which is C9's case).
C2_SuccessAfterRetries ==
    /\ \A i \in 1..Len(AdapterCalls) :
         i < Len(AdapterCalls) => ReturnedFailure(AdapterCalls[i])
    /\ Len(AdapterCalls) <= max_retries
    /\ C2_Scenario =>
         /\ Truthy(Last(AdapterCalls).arg.result.output) =>
              /\ Len(PropertyWrites) = 1
              /\ PropertyWrites[1].arg.name = "PlanOutput"
              /\ PropertyWrites[1].arg.value.src = Last(AdapterCalls).arg.result.output.src
         /\ Last(StageWrites).arg = "Planned"
         /\ Last(StageWrites) = Last(calls)
         /\ Last(calls).ok => ret = "True"
         /\ ret # "False"

\* C2 witness: a failure, then a success with output, stored and returned True
C2_Witness ==
    /\ C2_Scenario
    /\ Len(AdapterCalls) = 2
    /\ Truthy(Last(AdapterCalls).arg.result.output)
    /\ ret = "True"

\* C3: the task is in ReadyToImplement and the first agent invocation succeeds
C3_Scenario ==
    /\ Returned
    /\ task.status = "READY_TO_IMPLEMENT"
    /\ Len(AdapterCalls) >= 1
    /\ ReturnedSuccess(AdapterCalls[1])

\* C3: for a ReadyToImplement task whose first agent invocation succeeds, the
\* stage writes process_task issues are exactly ImplementInProgress then
\* ImplementDone, the first before and the second after the invocation, and
\* no plan-property write is issued whatever the output is.
C3_ImplementationWrites ==
    C3_Scenario =>
        /\ [i \in 1..Len(StageWrites) |-> StageWrites[i].arg]
             = << "ImplementInProgress", "ImplementDone" >>
        /\ calls[1] = StageWrites[1]
        /\ Last(calls) = StageWrites[2]
        /\ Len(AdapterCalls) = 1
        /\ Len(PropertyWrites) = 0

\* C3 witness: the implementation succeeded at once with a non-empty output
C3_Witness ==
    /\ C3_Scenario
    /\ Truthy(AdapterCalls[1].arg.result.output)
    /\ ret = "True"

\* C4: for a task in one of the 12 stages without a trigger transition,
\* process_task returns False, calls neither adapter method, launches
\* nothing and issues no store write; the store is as it was.
C4_NonTriggerNoEffect ==
    (Returned /\ task.status \notin AI_TRIGGER_STATUSES) =>
        /\ ret = "False"
        /\ calls = << >>
        /\ store[task.page_id] = StatusValue(task.status)

\* C4 witness: process_task has returned for a task in Planned
C4_Witness == Returned /\ task.status = "PLANNED" /\ ret = "False"

\* a best-effort store write (plan property, session comment, error comment)
IsSideWrite(c) == c.op \in { "update_task_property", "add_comment" }

TriggerTokens == { StatusValue(t) : t \in AI_TRIGGER_STATUSES }

\* C5: every call process_task makes for a trigger-stage task comes after
\* the in-progress stage write, which is the first call and is always made;
\* anything that follows it (an agent invocation, a launch, another store
\* write) follows a write that completed: when the write raises, it stays
\* the only call.
C5_InProgressWriteFirst ==
    /\ (Returned /\ task.status \in AI_TRIGGER_STATUSES) => Len(calls) >= 1
    /\ Len(calls) >= 1 =>
         /\ task.status \in AI_TRIGGER_STATUSES
         /\ IsStageWrite(calls[1], in_progress_status)
         /\ calls[1].page = task.page_id
    /\ Len(calls) >= 2 => calls[1].ok
    /\ (Len(calls) >= 1 /\ ~calls[1].ok) =>
         /\ Len(AdapterCalls) = 0
         /\ Len(Launches) = 0
         /\ Len(StoreWrites) = 1

\* C5 witness: the in-progress write raised and process_task is over
C5_Witness ==
    /\ Returned
    /\ task.status = "TO_PLAN"
    /\ max_retries >= 1
    /\ Len(calls) = 1
    /\ ~calls[1].ok

\* C6: when process_task returns False for a trigger-stage task the store
\* still holds the in-progress stage; no stage write ever carries a trigger
\* stage, and once the in-progress write took effect the store never holds
\* the task's trigger stage again.
C6_NoRollback ==
    /\ (Returned /\ ret = "False" /\ task.status \in AI_TRIGGER_STATUSES) =>
         store[task.page_id] = StatusValue(in_progress_status)
    /\ \A i \in 1..Len(StageWrites) : StageWrites[i].arg \notin TriggerTokens
    /\ (Len(calls) >= 1 /\ calls[1].ok) => store[task.page_id] # StatusValue(task.status)

\* C6 witness: both attempts failed and process_task returned False
C6_Witness ==
    /\ Returned
    /\ ret = "False"
    /\ task.status = "READY_TO_IMPLEMENT"
    /\ Len(AdapterCalls) = 2
    /\ store[task.page_id] = "ImplementInProgress"

\* C7: the best-effort write that raised
SideWriteFailed == \E i \in 1..Len(calls) : IsSideWrite(calls[i]) /\ ~calls[i].ok

\* C7: a best-effort write that raises never ends process_task and never
\* changes its result: after an agent success the done write is still issued
\* as the last call and process_task returns True when that write succeeds
\* (the done write alone decides otherwise); after exhausted failure
\* process_task returns False.
C7_BestEffortWrites ==
    (Returned /\ SideWriteFailed) =>
        IF AgentSucceeded
        THEN /\ IsStageWrite(Last(calls), done_status)
             /\ ret = IF Last(calls).ok THEN "True" ELSE "APIResponseError"
        ELSE /\ ret = "False"
             /\ IsSideWrite(Last(calls))

\* C7 witness: the plan write and the session comment both raised, True returned
C7_Witness ==
    /\ Returned
    /\ \E i \in 1..Len(calls) : calls[i].op = "update_task_property" /\ ~calls[i].ok
    /\ \E i \in 1..Len(calls) : calls[i].op = "add_comment" /\ ~calls[i].ok
    /\ ret = "True"

\* C8: the run took only documented failure paths: every process that was
\* launched ended in a way the adapter turns into an outcome
DocumentedPath == \A i \in 1..Len(Launches) : Launches[i].ok

\* C8: process_task returns a boolean, and raises nothing, on every
\* documented failure path (agent failure on every attempt, an invalid
\* working directory, no trigger mapping, a raising in-progress write, a
\* raising best-effort write, a raising done write).
C8_AlwaysReturnsBoolean ==
    (Returned /\ DocumentedPath) => ret \in { "True", "False" }

\* C9: the done write raised after the agent succeeded
C9_Scenario ==
    /\ Returned
    /\ AgentSucceeded
    /\ IsStageWrite(Last(calls), done_status)
    /\ ~Last(calls).ok

\* C9: when the done stage write raises after the agent succeeded,
\* process_task does not return True (the error reaches its caller) and the
\* store still holds the in-progress stage.
C9_DoneWriteFailure ==
    C9_Scenario =>
        /\ ret \notin { "True", "pending" }
        /\ store[task.page_id] = StatusValue(in_progress_status)

\* C9 witness: a planning task whose done write raised
C9_Witness == C9_Scenario /\ task.status = "TO_PLAN"

\* C10: the project path is unset, does not exist, is no directory or holds
\* a null byte
BadProjectPath(p) == p = "" \/ ~IsDir(p)

\* C10: for such a project path every run_planning / run_implementation call
\* returns a failure outcome with an error text, and no process is launched.
C10_BadPathFailsFast ==
    BadProjectPath(task.project_path) =>
        /\ \A i \in 1..Len(AdapterCalls) :
             ReturnedFailure(AdapterCalls[i]) /\ Truthy(AdapterCalls[i].arg.result.error)
        /\ Len(Launches) = 0


\* C11: a project path that is set and does not resolve to a directory
MalformedPath(p) == p # "" /\ ~IsDir(p)

\* C11: the task has no trigger mapping, or it has one and its working
\* directory is malformed (the in-progress write went through)
C11_Scenario ==
    /\ Returned
    /\ \/ TransitionGet(task.status) = << >>
       \/ /\ MalformedPath(task.project_path)
          /\ max_retries >= 1
          /\ Len(calls) >= 2

\* C11: on a configuration/input failure process_task reports failure
\* (returns False) at once: no process is launched, no backoff wait is made
\* and no second attempt is started.
C11_ConfigFailureImmediate ==
    C11_Scenario =>
        /\ ret = "False"
        /\ Len(Launches) = 0
        /\ Len(Sleeps) = 0
        /\ Len(AdapterCalls) <= 1

\* C12: the task was moved to its in-progress stage and processing is over
\* without a done write that took effect
C12_Scenario ==
    /\ Returned
    /\ Len(calls) >= 1
    /\ calls[1].ok
    /\ ~\E i \in 1..Len(calls) : IsStageWrite(calls[i], done_status) /\ calls[i].ok

\* C12: whenever processing of a task that was moved to its in-progress
\* stage ends without the done write taking effect, an error annotation for
\* that task has been attempted.
C12_FailureAnnotated ==
    C12_Scenario =>
        \E i \in 1..Len(calls) :
            /\ calls[i].op = "add_comment"
            /\ calls[i].page = task.page_id
            /\ calls[i].arg.tag = "Error"

\* the number of adapter calls / waits among the first i calls
AttemptsUpTo(i) ==
    Len(SelectSeq(SubSeq(calls, 1, i),
                  LAMBDA c : c.op \in { "run_planning", "run_implementation" }))
SleepsUpTo(i) == Len(SelectSeq(SubSeq(calls, 1, i), LAMBDA c : c.op = "sleep"))

\* the retry loop of the current process_task call is over
LoopOver == pc \in { "result", "store_session", "move_to_done", "returned" }

\* C20: every wait comes right after a failed attempt k < N, lasts B^k, is
\* the k-th wait, and is followed by attempt k+1 and nothing else; so no
\* wait precedes attempt 1 or follows a success or attempt N, and once the
\* loop is over the waits number the attempts made minus one.
C20_BackoffBetweenAttempts ==
    /\ \A i \in 1..Len(calls) :
         calls[i].op = "sleep" =>
            LET k == AttemptsUpTo(i) IN
            /\ k >= 1
            /\ k < max_retries
            /\ ReturnedFailure(AdapterCalls[k])
            /\ calls[i - 1].op \in { "subprocess_run", "run_planning", "run_implementation" }
            /\ calls[i].arg = Pow(BackoffBase, k)
            /\ SleepsUpTo(i) = k
            /\ i < Len(calls) => calls[i + 1].op \in { "run_planning", "run_implementation" }
    /\ (LoopOver /\ Len(AdapterCalls) >= 1) =>
         /\ Len(Sleeps) = Len(AdapterCalls) - 1
         /\ Last(calls).op # "sleep"

\* C20 witness: one wait of B^1 between a failed and a successful attempt
C20_Witness ==
    /\ Returned
    /\ Len(Sleeps) = 1
    /\ Sleeps[1].arg = BackoffBase
    /\ Len(AdapterCalls) = 2
    /\ AgentSucceeded


\* ------------------------------------------------------------------------
\* Scheduler (scheduler.py): run, stop, _poll_cycle, and the signal handlers
\* of run_with_signal_handling.  The processor's actions above are the body
\* of the process_task call of the poll cycle.
\* ------------------------------------------------------------------------

MaxCycles == 2
SchedMaxRetries == 2
PollInterval == 30

\* the order in which the store returns the pages of one query
PageOrder == << "page-1", "page-2" >>

\* the ProjectPath property of each page
PagePath(p) == IF p = "page-1" THEN "/proj" ELSE "/missing"

\* the stages the pages start in
SchedTokens == { "ToPlan", "ReadyToImplement", "Planned" }

\* TaskStatus(status_name): the member with that value, ValueError when no
\* member has it
StatusOf(token) ==
    IF \E m \in Members : StatusValue(m) = token
    THEN CHOOSE m \in Members : StatusValue(m) = token
    ELSE "ValueError"

\* the variant of _page_to_task that gives the task a session id
PageToTask_WithSession(st, p) == Task(p, StatusOf(st[p]), PagePath(p), "sess-0")

\* NotionTaskClient._page_to_task for a well-formed page: session_id is never set
PageToTask(st, p) == Task(p, StatusOf(st[p]), PagePath(p), "")

\* the variant of query_tasks_by_status that sends no filter
QueryTasksByStatus_NoFilter(st, status) ==
    [i \in 1..Len(PageOrder) |-> PageToTask(st, PageOrder[i])]

\* NotionTaskClient.query_tasks_by_status: the pages whose Status equals
\* status.value, in the store's order, each converted to a Task
QueryTasksByStatus(st, status) ==
    LET hits == SelectSeq(PageOrder, LAMBDA p : st[p] = StatusValue(status))
    IN  [i \in 1..Len(hits) |-> PageToTask(st, hits[i])]

\* the orders in which a set of statuses can be iterated
IterationOrders(S) ==
    { o \in [1..Cardinality(S) -> S] : \A i, j \in 1..Cardinality(S) : o[i] = o[j] => i = j }

\* the statuses _poll_cycle asks for
PollStatuses == AI_TRIGGER_STATUSES

\* the variant of the while test that ignores the flag
LoopContinues_Always(flag) == TRUE

\* run: `while self._running`
LoopContinues(flag) == flag

\* the variant of the for loop that never breaks
BatchBreaks_Never(flag) == FALSE

\* _poll_cycle: `if not self._running: break`
BatchBreaks(flag) == ~flag

\* the variant of run in which an error of the poll cycle ends the loop
AfterCycleError_Exits == "exited"

\* run: `except Exception` logs and falls through to the sleep
AfterCycleError == "sleep"

\* the variant of _poll_cycle that does not wait for process_task to return
AfterHand_NoWait == "batch"

\* _poll_cycle: process_task is a blocking call
AfterHand == "processing"

NoTask == Task("", "REQUIREMENT", "", "")

SleepCall == Call("asyncio_sleep", "", PollInterval, TRUE)

ErrorLog(exc) == Call("poll_cycle_error", "", exc, TRUE)

SchedInit ==
    /\ task = NoTask
    /\ max_retries = SchedMaxRetries
    /\ pc = "idle"
    /\ attempt = 0
    /\ last_result = NoResult
    /\ ret = "pending"
    /\ store \in [PageIds -> SchedTokens]
    /\ calls = << >>
    /\ running = FALSE
    /\ spc = "init"
    /\ tasks = << >>
    /\ idx = 0
    /\ cycles = 0
    /\ signal = "none"
    /\ sig_idx = 0
    /\ input = << >>
    /\ output = << >>

pvars == << task, max_retries, pc, attempt, last_result, ret, store >>

\* Scheduler.run up to the while loop
Run ==
    /\ spc = "init"
    /\ running' = TRUE
    /\ spc' = "loop"
    /\ UNCHANGED << pvars, calls, tasks, idx, cycles, signal, sig_idx >>
    /\ UNCHANGED dvars

\* Scheduler.stop, called by another party while run is executing
Stop ==
    /\ spc \in { "loop", "batch", "processing", "sleep" }
    /\ running' = FALSE
    /\ UNCHANGED << pvars, calls, spc, tasks, idx, cycles, signal, sig_idx >>
    /\ UNCHANGED dvars

\* the while test is true: _poll_cycle up to the for loop
PollCycle ==
    /\ spc = "loop"
    /\ LoopContinues(running)
    /\ cycles < MaxCycles
    /\ cycles' = cycles + 1
    /\ \E order \in IterationOrders(PollStatuses), fail \in 0..2 :
         LET r1 == QueryTasksByStatus(store, order[1])
             r2 == QueryTasksByStatus(store, order[2])
             found == r1 \o r2
             q1 == Call("query_tasks_by_status", "",
                        [status |-> StatusValue(order[1]),
                         count |-> IF fail = 1 THEN 0 ELSE Len(r1)], fail # 1)
             q2 == Call("query_tasks_by_status", "",
                        [status |-> StatusValue(order[2]),
                         count |-> IF fail = 2 THEN 0 ELSE Len(r2)], fail # 2)
             qa == Call("query_actionable_tasks", "",
                        [count |-> IF fail = 0 THEN Len(found) ELSE 0], fail = 0)
             queries == IF fail = 1 THEN << qa, q1 >> ELSE << qa, q1, q2 >>
         IN  IF fail # 0
             THEN /\ calls' = calls \o queries \o
                                IF AfterCycleError = "sleep"
                                THEN << ErrorLog("APIResponseError"), SleepCall >>
                                ELSE << ErrorLog("APIResponseError") >>
                  /\ spc' = AfterCycleError
                  /\ tasks' = << >>
                  /\ idx' = 0
             ELSE IF found = << >>
             THEN /\ calls' = calls \o queries \o << SleepCall >>
                  /\ spc' = "sleep"
                  /\ tasks' = << >>
                  /\ idx' = 0
             ELSE /\ calls' = calls \o queries
                  /\ spc' = "batch"
                  /\ tasks' = found
                  /\ idx' = 1
    /\ UNCHANGED << pvars, running, signal, sig_idx >>
    /\ UNCHANGED dvars

\* the while test is false: run returns
LoopExit ==
    /\ spc = "loop"
    /\ ~LoopContinues(running)
    /\ spc' = "exited"
    /\ calls' = Append(calls, Call("scheduler_stopped", "", "", TRUE))
    /\ UNCHANGED << pvars, running, tasks, idx, cycles, signal, sig_idx >>
    /\ UNCHANGED dvars

\* the for loop is over: _poll_cycle returns and run sleeps
BatchDone ==
    /\ spc = "batch"
    /\ idx > Len(tasks)
    /\ spc' = "sleep"
    /\ calls' = Append(calls, SleepCall)
    /\ UNCHANGED << pvars, running, tasks, idx, cycles, signal, sig_idx >>
    /\ UNCHANGED dvars

\* the for loop breaks: _poll_cycle returns and run sleeps
BatchBreak ==
    /\ spc = "batch"
    /\ idx <= Len(tasks)
    /\ BatchBreaks(running)
    /\ spc' = "sleep"
    /\ calls' = Append(calls, SleepCall)
    /\ UNCHANGED << pvars, running, tasks, idx, cycles, signal, sig_idx >>
    /\ UNCHANGED dvars

\* the for loop calls process_task with the next task
HandTask ==
    /\ spc = "batch"
    /\ idx <= Len(tasks)
    /\ ~BatchBreaks(running)
    /\ task' = tasks[idx]
    /\ pc' = "process_task"
    /\ attempt' = 0
    /\ last_result' = NoResult
    /\ ret' = "pending"
    /\ spc' = AfterHand
    /\ idx' = IF AfterHand = "processing" THEN idx ELSE idx + 1
    /\ calls' = Append(calls, Call("process_task", tasks[idx].page_id,
                                   StatusValue(tasks[idx].status), TRUE))
    /\ UNCHANGED << max_retries, store, running, tasks, cycles, signal, sig_idx >>
    /\ UNCHANGED dvars


\* process_task returned True or False: the for loop goes on
TaskReturned ==
    /\ spc = "processing"
    /\ pc = "returned"
    /\ ret \in { "True", "False" }
    /\ pc' = "idle"
    /\ idx' = idx + 1
    /\ spc' = "batch"
    /\ UNCHANGED << task, max_retries, attempt, last_result, ret, store, calls,
                    running, tasks, cycles, signal, sig_idx >>
    /\ UNCHANGED dvars

\* the variant of _poll_cycle that catches the exception of process_task
\* inside the for loop and goes on with the next task
TaskRaised_Continues ==
    /\ spc = "processing"
    /\ pc = "returned"
    /\ ret \notin { "True", "False" }
    /\ pc' = "idle"
    /\ idx' = idx + 1
    /\ spc' = "batch"
    /\ calls' = Append(calls, ErrorLog(ret))
    /\ UNCHANGED << task, max_retries, attempt, last_result, ret, store,
                    running, tasks, cycles, signal, sig_idx >>
    /\ UNCHANGED dvars

\* process_task raised: the exception leaves _poll_cycle and is caught in run
TaskRaised ==
    /\ spc = "processing"
    /\ pc = "returned"
    /\ ret \notin { "True", "False" }
    /\ pc' = "idle"
    /\ spc' = AfterCycleError
    /\ calls' = calls \o IF AfterCycleError = "sleep"
                         THEN << ErrorLog(ret), SleepCall >>
                         ELSE << ErrorLog(ret) >>
    /\ UNCHANGED << task, max_retries, attempt, last_result, ret, store,
                    running, tasks, idx, cycles, signal, sig_idx >>
    /\ UNCHANGED dvars

\* asyncio.sleep returns; a signal handler that is due has run before
SleepDone ==
    /\ spc = "sleep"
    /\ signal # "pending"
    /\ spc' = "loop"
    /\ UNCHANGED << pvars, calls, running, tasks, idx, cycles, signal, sig_idx >>
    /\ UNCHANGED dvars

\* asyncio.sleep raises CancelledError: break
SleepCancelled ==
    /\ spc = "sleep"
    /\ signal = "none"
    /\ spc' = "exited"
    /\ calls' = Append(calls, Call("scheduler_stopped", "", "", TRUE))
    /\ UNCHANGED << pvars, running, tasks, idx, cycles, signal, sig_idx >>
    /\ UNCHANGED dvars

\* KeyboardInterrupt is raised while process_task is running (no signal
\* handlers installed): it passes every `except Exception` and run breaks
KeyboardInterrupt ==
    /\ spc = "processing"
    /\ pc # "returned"
    /\ signal = "none"
    /\ pc' = "idle"
    /\ ret' = "KeyboardInterrupt"
    /\ spc' = "exited"
    /\ calls' = Append(calls, Call("scheduler_stopped", "", "", TRUE))
    /\ UNCHANGED << task, max_retries, attempt, last_result, store,
                    running, tasks, idx, cycles, signal, sig_idx >>
    /\ UNCHANGED dvars

\* SIGINT or SIGTERM arrives (run_with_signal_handling): the event loop
\* notes it and calls the handler when it next gets control
Signal ==
    /\ spc \in { "processing", "sleep" }
    /\ signal = "none"
    /\ signal' = "pending"
    /\ sig_idx' = IF spc = "processing" THEN idx ELSE 0
    /\ UNCHANGED << pvars, calls, running, spc, tasks, idx, cycles >>
    /\ UNCHANGED dvars

\* the event loop has control (run is suspended in asyncio.sleep) and
\* calls the handler, scheduler.stop
HandleSignal ==
    /\ spc = "sleep"
    /\ signal = "pending"
    /\ signal' = "handled"
    /\ running' = FALSE
    /\ UNCHANGED << pvars, calls, spc, tasks, idx, cycles, sig_idx >>
    /\ UNCHANGED dvars

\* the steps of the scheduler and of the processor it calls
SchedProgram ==
    \/ Run
    \/ PollCycle
    \/ LoopExit
    \/ BatchDone
    \/ BatchBreak
    \/ HandTask
    \/ TaskReturned
    \/ TaskRaised
    \/ SleepDone
    \/ HandleSignal
    \/ MoveToInProgress
    \/ Attempt
    \/ Backoff
    \/ Exhausted
    \/ StorePlan
    \/ StoreSession
    \/ MoveToDone
    \/ ReportFailure

\* NoTransition is no step here: the query returns tasks in trigger stages only
SchedNext ==
    \/ Run
    \/ Stop
    \/ PollCycle
    \/ LoopExit
    \/ BatchDone
    \/ BatchBreak
    \/ HandTask
    \/ TaskReturned
    \/ TaskRaised
    \/ SleepDone
    \/ SleepCancelled
    \/ KeyboardInterrupt
    \/ Signal
    \/ HandleSignal
    \/ MoveToInProgress
    \/ Attempt
    \/ Backoff
    \/ Exhausted
    \/ StorePlan
    \/ StoreSession
    \/ MoveToDone
    \/ ReportFailure

SchedSpec == SchedInit /\ [][SchedNext]_vars

\* the scheduler and the processor take their steps; stop, signals,
\* interrupts and cancellation are up to the environment
SchedFairSpec == SchedSpec /\ WF_vars(SchedProgram)


\* ------------------------------------------------ what the scheduler's log shows

Handoffs == SelectSeq(calls, LAMBDA c : c.op = "process_task")
Queries == SelectSeq(calls, LAMBDA c : c.op = "query_actionable_tasks")
RunExecuting == spc \in { "loop", "batch", "processing", "sleep" }

\* the step appends at least one call, the first of which is made by op
Begins(op) == Len(calls') > Len(calls) /\ calls'[Len(calls) + 1].op = op

\* ------------------------------------------------ claims about the scheduler

\* C13: a signal arrives while task k of a batch is being processed; the
\* claim is that no later task of that batch is processed, that is, that
\* while the signal is still waiting for its handler the task in the
\* processor is the one during which the signal arrived.
C13_SignalFinishesCurrentOnly ==
    (signal = "pending" /\ spc = "processing") => idx = sig_idx

\* C14: once the running flag is cleared and no task is in the processor,
\* no task is handed to the processor and no store write is made: a flag
\* cleared between task i and task i+1 leaves task i+1 and the later tasks
\* of the batch untouched.
C14_StopBetweenTasks ==
    [][ (~running /\ spc \in { "batch", "sleep", "loop", "exited" })
        => /\ spc' # "processing"
           /\ Handoffs' = Handoffs
           /\ StoreWrites' = StoreWrites
           /\ store' = store ]_vars

\* a batch was left by the break with task 1 done and task 2 not handed
C14_Witness ==
    /\ spc = "sleep"
    /\ ~running
    /\ signal = "none"
    /\ idx = 2
    /\ Len(tasks) = 2
    /\ Len(Handoffs) = 1
    /\ Last(calls) = SleepCall
    /\ calls[Len(calls) - 1].op # "poll_cycle_error"
    /\ store[tasks[2].page_id] \in TriggerTokens

\* C15: after stop() was called while run() was executing, no poll cycle
\* begins (no query is made), and run() eventually returns with the flag
\* cleared.
C15_StopEndsRun ==
    /\ [][ (~running /\ RunExecuting) => (Queries' = Queries /\ cycles' = cycles) ]_vars
    /\ (~running /\ RunExecuting) ~> (spc = "exited" /\ ~running)

\* run() has returned after a stop that came while a task was processed
C15_Witness ==
    /\ spc = "exited"
    /\ ~running
    /\ signal = "none"
    /\ Len(Handoffs) >= 1
    /\ Len(Queries) = 1
    /\ Last(calls).op = "scheduler_stopped"

\* C16: whenever run() has left its loop the running flag is false.
C16_ExitedMeansStopped == spc = "exited" => ~running

\* C17: an error of a poll cycle is logged and followed by the sleep; after
\* a sleep comes the next poll cycle or the end of run(); and run() leaves
\* its loop only from the while test with the flag cleared, from a
\* cancelled sleep, or by a KeyboardInterrupt.
C17_CycleErrorsDoNotEndLoop ==
    /\ [](\A i \in 1..Len(calls) :
            /\ calls[i].op = "poll_cycle_error"
                 => i < Len(calls) /\ calls[i + 1] = SleepCall
            /\ (calls[i] = SleepCall /\ i < Len(calls))
                 => calls[i + 1].op \in { "query_actionable_tasks", "scheduler_stopped" })
    /\ [][ (spc # "exited" /\ spc' = "exited")
           => \/ spc = "loop" /\ ~running
              \/ spc = "sleep"
              \/ spc = "processing" /\ ret' = "KeyboardInterrupt" ]_vars

\* an exception of process_task and an error of the query were each
\* followed by the sleep, and the first by another poll cycle
C17_Witness ==
    /\ Len(calls) >= 2
    /\ calls[Len(calls) - 1] = ErrorLog("APIResponseError")
    /\ Len(Queries) = 2
    /\ ~Last(Queries).ok
    /\ \E i \in 1..Len(calls) :
         /\ calls[i] = ErrorLog("ValueError")
         /\ calls[i + 1] = SleepCall
         /\ calls[i + 2].op = "query_actionable_tasks"

\* C18: a poll cycle that begins when no page is in a trigger stage, and
\* whose query does not raise, makes the one query_actionable_tasks call
\* (one store query per trigger stage) and goes to the sleep: no store
\* write, no call of process_task, of the adapter or of subprocess.run.
C18_EmptyCycle ==
    [][ ( /\ spc = "loop"
          /\ \A p \in PageIds : store[p] \notin TriggerTokens
          /\ Begins("query_actionable_tasks")
          /\ calls'[Len(calls) + 1].ok )
        => /\ Len(calls') = Len(calls) + 4
           /\ calls'[Len(calls) + 1].arg.count = 0
           /\ \A k \in { 2, 3 } : calls'[Len(calls) + k].op = "query_tasks_by_status"
           /\ { calls'[Len(calls) + k].arg.status : k \in { 2, 3 } } = TriggerTokens
           /\ calls'[Len(calls) + 4] = SleepCall
           /\ spc' = "sleep"
           /\ store' = store
           /\ pc' = "idle" ]_vars

\* the first cycle found nothing and the run is in its sleep
C18_Witness ==
    /\ spc = "sleep"
    /\ cycles = 1
    /\ Len(calls) = 4
    /\ calls[1].op = "query_actionable_tasks"
    /\ calls[1].ok
    /\ calls[1].arg.count = 0
    /\ \A p \in PageIds : store[p] \notin TriggerTokens

\* C19: the processor works on a task only while the for loop waits for it;
\* a task is handed to it, and a poll cycle begins, only when the processor
\* is idle; a poll cycle begins only from the while test; and every launch
\* of the agent is over (subprocess.run has returned) in every state.
C19_Serial ==
    /\ [](pc # "idle" => spc = "processing")
    /\ [][ Begins("process_task") => (pc = "idle" /\ spc = "batch") ]_vars
    /\ [][ Begins("query_actionable_tasks") => (pc = "idle" /\ spc = "loop") ]_vars

\* two tasks were processed in the first cycle and a second cycle began
C19_Witness ==
    /\ Len(Queries) = 2
    /\ Len(Handoffs) >= 2
    /\ Handoffs[1].page # Handoffs[2].page
    /\ \E i \in 1..Len(calls) :
         /\ calls[i] = Handoffs[2]
         /\ ~\E j \in 1..i : calls[j].op = "query_actionable_tasks" /\ j > 1


\* ------------------------------------------------ claims about the adapter

\* C21: every adapter call returns an outcome and does not raise, and makes
\* exactly one launch; a launch that times out or cannot be made gives a
\* failure, a zero exit gives a success; a failure carries an error text and
\* no session id, a success carries no error text.
C21_AdapterNormalizes ==
    \A i \in 1..Len(calls) :
        calls[i].op \in { "run_planning", "run_implementation" }
        => /\ calls[i].arg.raises = ""
           /\ i < Len(calls)
           /\ calls[i + 1].op = "subprocess_run"
           /\ i + 2 <= Len(calls) => calls[i + 2].op # "subprocess_run"
           /\ LET r == calls[i].arg.result
                  l == calls[i + 1].arg
              IN  /\ r.success <=> (l.end = "exit" /\ l.returncode = 0)
                  /\ r.success => r.error = EmptyText
                  /\ ~r.success => (Truthy(r.error) /\ r.session_id = "")

\* C26: a done-stage write comes after the in-progress write of the same
\* call, which took effect, and after an adapter call for the same task
\* that returned success and is the last adapter call before it; every
\* adapter call before that one returned failure.
C26_DoneOnlyAfterSuccess ==
    \A i \in 1..Len(calls) :
        (TransitionGet(task.status) # << >> /\ IsStageWrite(calls[i], done_status))
        => /\ i > 1
           /\ IsStageWrite(calls[1], in_progress_status)
           /\ calls[1].ok
           /\ calls[1].page = task.page_id
           /\ calls[i].page = task.page_id
           /\ \E j \in 2..(i - 1) :
                /\ calls[j].op = AdapterMethod(task.status)
                /\ calls[j].page = task.page_id
                /\ ReturnedSuccess(calls[j])
                /\ \A k \in (j + 1)..(i - 1) :
                     calls[k].op \notin { "run_planning", "run_implementation", "sleep" }
                /\ \A k \in 2..(j - 1) :
                     calls[k].op \in { "run_planning", "run_implementation" }
                     => ReturnedFailure(calls[k])

\* the done write was made after a failed and then a successful attempt
C26_Witness ==
    /\ Returned
    /\ Len(AdapterCalls) = 2
    /\ ReturnedFailure(AdapterCalls[1])
    /\ ReturnedSuccess(AdapterCalls[2])
    /\ IsStageWrite(Last(calls), done_status)
    /\ Last(calls).ok


\* ------------------------------------------------------------------------
\* The tables of models.py and the page conversion of notion_client.py,
\* each called on its own with inputs drawn in DataInit.
\* ------------------------------------------------------------------------

MaxPages == 2
MaxWalk == 16

\* the variant of VALID_TRANSITIONS that steps over PLANNED
VALID_TRANSITIONS_SkipsStage ==
    { << "REQUIREMENT", "DESIGN_IN_PROGRESS" >>,
      << "DESIGN_IN_PROGRESS", "TO_PLAN" >>,
      << "TO_PLAN", "PLANNING" >>,
      << "PLANNING", "READY_TO_IMPLEMENT" >>,
      << "PLANNED", "READY_TO_IMPLEMENT" >>,
      << "READY_TO_IMPLEMENT", "IMPLEMENT_IN_PROGRESS" >>,
      << "IMPLEMENT_IN_PROGRESS", "IMPLEMENT_DONE" >>,
      << "IMPLEMENT_DONE", "READY_TO_REVIEW" >>,
      << "READY_TO_REVIEW", "REVIEW_IN_PROGRESS" >>,
      << "REVIEW_IN_PROGRESS", "REVIEW_DONE" >>,
      << "REVIEW_DONE", "READY_TO_RELEASE" >>,
      << "READY_TO_RELEASE", "RELEASE_IN_PROGRESS" >>,
      << "RELEASE_IN_PROGRESS", "RELEASE_DONE" >> }

\* VALID_TRANSITIONS as a set of <<stage, next stage>> entries
VALID_TRANSITIONS ==
    { << "REQUIREMENT", "DESIGN_IN_PROGRESS" >>,
      << "DESIGN_IN_PROGRESS", "TO_PLAN" >>,
      << "TO_PLAN", "PLANNING" >>,
      << "PLANNING", "PLANNED" >>,
      << "PLANNED", "READY_TO_IMPLEMENT" >>,
      << "READY_TO_IMPLEMENT", "IMPLEMENT_IN_PROGRESS" >>,
      << "IMPLEMENT_IN_PROGRESS", "IMPLEMENT_DONE" >>,
      << "IMPLEMENT_DONE", "READY_TO_REVIEW" >>,
      << "READY_TO_REVIEW", "REVIEW_IN_PROGRESS" >>,
      << "REVIEW_IN_PROGRESS", "REVIEW_DONE" >>,
      << "REVIEW_DONE", "READY_TO_RELEASE" >>,
      << "READY_TO_RELEASE", "RELEASE_IN_PROGRESS" >>,
      << "RELEASE_IN_PROGRESS", "RELEASE_DONE" >> }

\* VALID_TRANSITIONS.get(status): the next stage, or "None"
ValidGet(status) ==
    IF \E e \in VALID_TRANSITIONS : e[1] = status
    THEN (CHOOSE e \in VALID_TRANSITIONS : e[1] = status)[2]
    ELSE "None"

\* strings that are no value of a member: case variants, a member's name,
\* the empty string, a word of another vocabulary
OtherStrings == { "toplan", "TOPLAN", "TO_PLAN", "", "Done", "To Plan" }

\* the forms of the Name property of a page: a title with a text, no Name
\* property, an empty title list, a title that is null, a Name that is null
TitleForms == { "text", "absent", "empty", "nulltitle", "null" }

\* the forms of the Status property of a page: a select or status object
\* with a name, no Status property, an object without name, a select that is null
Stage(form, name) == [form |-> form, name |-> name]

StageForms ==
    { Stage("select", n) : n \in { "ToPlan", "Planned", "toplan", "Done" } }
    \cup { Stage("status", "ReadyToImplement") }
    \cup { Stage(f, "") : f \in { "absent", "empty", "null" } }

Page(id, title, stage) == [id |-> id, title |-> title, stage |-> stage]

RawPages == { Page(id, t, st) : id \in PageIds, t \in TitleForms, st \in StageForms }

\* the lists of pages a store query may return
Responses ==
    UNION { [1..n -> RawPages] : n \in 0..MaxPages }

\* NotionTaskClient._page_to_task: the Task (a list of one), None (the empty
\* list) for a page that is dropped, or the exception that is not caught
ParsePage(page) ==
    IF page.title = "null"
    THEN [raises |-> "AttributeError", task |-> << >>]
    ELSE IF page.stage.form = "null"
    THEN [raises |-> "AttributeError", task |-> << >>]
    ELSE LET status_name == IF page.stage.form \in { "select", "status" }
                            THEN page.stage.name ELSE ""
         IN  IF StatusOf(status_name) = "ValueError"
             THEN [raises |-> "", task |-> << >>]
             ELSE [raises |-> "", task |-> << Task(page.id, StatusOf(status_name), "", "") >>]

\* NotionTaskClient.query_tasks_by_status from the response on
QueryResponse(results) ==
    LET parsed == [i \in 1..Len(results) |-> ParsePage(results[i])]
        kept == SelectSeq(parsed, LAMBDA r : r.raises = "" /\ Len(r.task) = 1)
    IN  IF \E i \in 1..Len(results) : parsed[i].raises # ""
        THEN [raises |-> parsed[CHOOSE i \in 1..Len(results) :
                                   /\ parsed[i].raises # ""
                                   /\ \A j \in 1..(i - 1) : parsed[j].raises = ""].raises,
              tasks |-> << >>]
        ELSE [raises |-> "", tasks |-> [i \in 1..Len(kept) |-> kept[i].task[1]]]

Input(fn, arg) == [fn |-> fn, arg |-> arg]

DataInit ==
    /\ task = NoTask
    /\ max_retries = SchedMaxRetries
    /\ pc = "call"
    /\ attempt = 0
    /\ last_result = NoResult
    /\ ret = "pending"
    /\ store = [p \in PageIds |-> "Requirement"]
    /\ calls = << >>
    /\ running = FALSE
    /\ spc = "data"
    /\ tasks = << >>
    /\ idx = 0
    /\ cycles = 0
    /\ signal = "none"
    /\ sig_idx = 0
    /\ \/ input \in { Input("query_tasks_by_status", r) : r \in Responses }
       \/ input \in { Input("TaskStatus.value", m) : m \in Members }
       \/ input \in { Input("TaskStatus", t) : t \in Tokens \cup OtherStrings }
       \/ input \in { Input("AI_TRANSITIONS.get", m) : m \in Members }
       \/ input \in { Input("VALID_TRANSITIONS", m) : m \in Members }
    /\ output = << >>

nvars == << task, max_retries, attempt, last_result, ret, store, calls,
            running, spc, tasks, idx, cycles, signal, sig_idx, input >>

\* query_tasks_by_status is called and the store answers with input.arg
QueryTasks ==
    /\ spc = "data"
    /\ pc = "call"
    /\ input.fn = "query_tasks_by_status"
    /\ output' = QueryResponse(input.arg)
    /\ pc' = "returned"
    /\ UNCHANGED nvars

\* member.value: of the input, or of the member the input was turned into
Serialize ==
    /\ spc = "data"
    /\ \/ /\ pc = "call"
          /\ input.fn = "TaskStatus.value"
          /\ output' = StatusValue(input.arg)
          /\ pc' = "back"
       \/ /\ pc = "back"
          /\ input.fn = "TaskStatus"
          /\ output' = StatusValue(output)
          /\ pc' = "returned"
    /\ UNCHANGED nvars

\* TaskStatus(string): of the input, or of the value the input was turned into
Deserialize ==
    /\ spc = "data"
    /\ \/ /\ pc = "call"
          /\ input.fn = "TaskStatus"
          /\ output' = StatusOf(input.arg)
          /\ pc' = IF StatusOf(input.arg) = "ValueError" THEN "returned" ELSE "back"
       \/ /\ pc = "back"
          /\ input.fn = "TaskStatus.value"
          /\ output' = StatusOf(output)
          /\ pc' = "returned"
    /\ UNCHANGED nvars

\* AI_TRANSITIONS.get(member)
GetTransition ==
    /\ spc = "data"
    /\ pc = "call"
    /\ input.fn = "AI_TRANSITIONS.get"
    /\ output' = TransitionGet(input.arg)
    /\ pc' = "returned"
    /\ UNCHANGED nvars

\* one more step along VALID_TRANSITIONS from the stage reached so far
FollowTransition ==
    /\ spc = "data"
    /\ pc = "call"
    /\ input.fn = "VALID_TRANSITIONS"
    /\ Len(output) < MaxWalk
    /\ LET cur == IF Len(output) = 0 THEN input.arg ELSE output[Len(output)]
       IN  IF ValidGet(cur) = "None"
           THEN pc' = "returned" /\ UNCHANGED output
           ELSE output' = Append(output, ValidGet(cur)) /\ UNCHANGED pc
    /\ UNCHANGED nvars

DataNext ==
    \/ QueryTasks
    \/ Serialize
    \/ Deserialize
    \/ GetTransition
    \/ FollowTransition

DataSpec == DataInit /\ [][DataNext]_vars


\* ------------------------------------------------ claims about the tables and the pages

Called(fn) == spc = "data" /\ input.fn = fn

\* the place of a member in the order of the class
Index(m) == CHOOSE i \in 1..Len(TaskStatus) : TaskStatus[i] = m

\* what the claim calls a well-formed record: a title, and a stage that is
\* one of the known tokens
WellFormed(page) ==
    /\ page.title = "text"
    /\ page.stage.form \in { "select", "status" }
    /\ page.stage.name \in Tokens

\* C22: query_tasks_by_status does not raise and returns the well-formed
\* records of the response, in the order of the response.
C22_MalformedDropped ==
    (Called("query_tasks_by_status") /\ pc = "returned")
    => /\ output.raises = ""
       /\ LET good == SelectSeq(input.arg, WellFormed)
          IN  /\ Len(output.tasks) = Len(good)
              /\ \A i \in 1..Len(good) :
                   /\ output.tasks[i].page_id = good[i].id
                   /\ StatusValue(output.tasks[i].status) = good[i].stage.name

\* C23: every stage but the last has an entry in VALID_TRANSITIONS and the
\* entry is the next stage of the fixed order; the last stage has none; the
\* walk along the table from a stage visits the following stages in order,
\* one by one, and ends at RELEASE_DONE.
C23_ForwardChain ==
    Called("VALID_TRANSITIONS")
    => /\ Cardinality(VALID_TRANSITIONS) = Len(TaskStatus) - 1
       /\ ValidGet(input.arg) = IF Index(input.arg) = Len(TaskStatus) THEN "None"
                                ELSE TaskStatus[Index(input.arg) + 1]
       /\ \A i \in 1..Len(output) :
            /\ Index(input.arg) + i <= Len(TaskStatus)
            /\ output[i] = TaskStatus[Index(input.arg) + i]
       /\ pc = "returned" => Index(input.arg) + Len(output) = Len(TaskStatus)

\* the walk from REQUIREMENT has ended, at RELEASE_DONE, after 13 steps
C23_Witness ==
    /\ Called("VALID_TRANSITIONS")
    /\ input.arg = "REQUIREMENT"
    /\ pc = "returned"
    /\ Len(output) = 13
    /\ output[13] = "RELEASE_DONE"
    /\ Cardinality({ output[i] : i \in 1..13 } \cup { "REQUIREMENT" }) = 14

\* C24: AI_TRANSITIONS has two entries, its keys are the trigger set, TO_PLAN
\* gives (PLANNING, PLANNED), READY_TO_IMPLEMENT gives (IMPLEMENT_IN_PROGRESS,
\* IMPLEMENT_DONE), and every other stage gives nothing.
C24_TriggerTable ==
    (Called("AI_TRANSITIONS.get") /\ pc = "returned")
    => /\ Cardinality(AI_TRANSITIONS) = 2
       /\ { e[1] : e \in AI_TRANSITIONS } = AI_TRIGGER_STATUSES
       /\ AI_TRIGGER_STATUSES = { "TO_PLAN", "READY_TO_IMPLEMENT" }
       /\ output = CASE input.arg = "TO_PLAN" -> << "PLANNING", "PLANNED" >>
                     [] input.arg = "READY_TO_IMPLEMENT" ->
                          << "IMPLEMENT_IN_PROGRESS", "IMPLEMENT_DONE" >>
                     [] OTHER -> << >>

C24_Witness ==
    /\ Called("AI_TRANSITIONS.get")
    /\ pc = "returned"
    /\ input.arg = "READY_TO_IMPLEMENT"
    /\ output = << "IMPLEMENT_IN_PROGRESS", "IMPLEMENT_DONE" >>

\* the documented tokens, in the fixed order
C25_Documented ==
    << "Requirement", "DesignInProgress", "ToPlan", "Planning", "Planned",
       "ReadyToImplement", "ImplementInProgress", "ImplementDone",
       "ReadyToReview", "ReviewInProgress", "ReviewDone",
       "ReadyToRelease", "ReleaseInProgress", "ReleaseDone" >>

\* C25: the 14 members have 14 distinct values, the documented ones in the
\* fixed order; a member turned into its value and back is the same member;
\* a documented token turned into a member and back is the same token; any
\* other string is no member.
C25_TokensRoundTrip ==
    /\ spc = "data" => Cardinality(Tokens) = 14 /\ Len(TaskStatus) = 14
    /\ (Called("TaskStatus.value") /\ pc = "back")
         => output = C25_Documented[Index(input.arg)]
    /\ (Called("TaskStatus.value") /\ pc = "returned") => output = input.arg
    /\ (Called("TaskStatus") /\ pc = "back")
         => /\ \E i \in 1..14 : C25_Documented[i] = input.arg /\ output = TaskStatus[i]
    /\ (Called("TaskStatus") /\ pc = "returned")
         => IF \E i \in 1..14 : C25_Documented[i] = input.arg
            THEN output = input.arg
            ELSE output = "ValueError"

C25_Witness ==
    /\ Called("TaskStatus")
    /\ pc = "returned"
    /\ input.arg = "ReleaseInProgress"
    /\ output = "ReleaseInProgress"


\* C29: for each trigger stage the in-progress stage is the next stage of
\* VALID_TRANSITIONS and the done stage the one after it; every stage write
\* process_task issues names the stage that follows the page's stored stage,
\* and every change of a stored stage is one step forward.
C29_OneStepForward ==
    /\ \A s \in AI_TRIGGER_STATUSES :
         /\ TransitionGet(s)[1] = ValidGet(s)
         /\ TransitionGet(s)[2] = ValidGet(ValidGet(s))
    /\ [][ Begins("update_task_status")
           => LET w == calls'[Len(calls) + 1]
              IN  w.arg = StatusValue(ValidGet(StatusOf(store[w.page]))) ]_vars
    /\ [][ \A p \in PageIds :
             store'[p] # store[p] => StatusOf(store'[p]) = ValidGet(StatusOf(store[p])) ]_vars

\* both stage writes of a READY_TO_IMPLEMENT task took effect
C29_Witness ==
    /\ Returned
    /\ ret = "True"
    /\ task.status = "READY_TO_IMPLEMENT"
    /\ Len(StageWrites) = 2
    /\ store[task.page_id] = "ImplementDone"


\* ------------------------------------------------ claims about batches and cycles

\* the place in q of the query that began the present poll cycle
CycleStart(q) ==
    CHOOSE i \in 1..Len(q) :
        /\ q[i].op = "query_actionable_tasks"
        /\ \A j \in (i + 1)..Len(q) : q[j].op # "query_actionable_tasks"

\* C28: when process_task raises for task k of a batch, the cycle ends in
\* the sleep; the tasks after k have had no call made for them in the cycle
\* and their pages are in the trigger stage they were read in; nothing
\* changes a page during the sleep; and a query that succeeds returns every
\* page that is in a trigger stage.
C28_RaisedTaskEndsBatch ==
    /\ [][ (spc = "processing" /\ Begins("poll_cycle_error"))
           => /\ spc' = "sleep"
              /\ \A j \in (idx + 1)..Len(tasks) :
                   /\ store'[tasks[j].page_id] = StatusValue(tasks[j].status)
                   /\ store'[tasks[j].page_id] \in TriggerTokens
                   /\ \A i \in CycleStart(calls')..Len(calls') :
                        calls'[i].page # tasks[j].page_id ]_vars
    /\ [][ (spc \in { "sleep", "loop" }) => (store' = store) ]_vars
    /\ [][ (Begins("query_actionable_tasks") /\ calls'[Len(calls) + 1].ok)
           => \A p \in PageIds :
                store[p] \in TriggerTokens
                => \E i \in 1..Len(tasks') :
                     /\ tasks'[i].page_id = p
                     /\ StatusValue(tasks'[i].status) = store[p] ]_vars

\* the first task of a batch of two raised, and the second cycle handed the
\* other task, for which no call had been made before
C28_Witness ==
    /\ Len(calls) >= 1
    /\ calls[1].op = "query_actionable_tasks"
    /\ calls[1].ok
    /\ calls[1].arg.count = 2
    /\ \E i, k \in 1..Len(calls) :
         /\ i < k
         /\ calls[i].op = "poll_cycle_error"
         /\ Len(SelectSeq(SubSeq(calls, 1, i), LAMBDA c : c.op = "process_task")) = 1
         /\ calls[k].op = "process_task"
         /\ \A j \in 1..i : calls[j].page # calls[k].page


\* ------------------------------------------------------------------------
\* The scheduler with another writer of the store: a person who puts a page
\* that is in no trigger stage into a trigger stage.
\* ------------------------------------------------------------------------

\* the stages process_task writes
WrittenTokens == { StatusValue(e[2][i]) : e \in AI_TRANSITIONS, i \in { 1, 2 } }

\* page-1 starts in a trigger stage, page-2 in a stage nobody touches
SchedExtInit ==
    /\ task = NoTask
    /\ max_retries = SchedMaxRetries
    /\ pc = "idle"
    /\ attempt = 0
    /\ last_result = NoResult
    /\ ret = "pending"
    /\ \E t \in TriggerTokens :
         store = [p \in PageIds |-> IF p = "page-1" THEN t ELSE "Requirement"]
    /\ calls = << >>
    /\ running = FALSE
    /\ spc = "init"
    /\ tasks = << >>
    /\ idx = 0
    /\ cycles = 0
    /\ signal = "none"
    /\ sig_idx = 0
    /\ input = << >>
    /\ output = << >>

\* the person acts once, between two poll cycles, on a page the program has written
ExternalMove ==
    /\ spc = "sleep"
    /\ cycles < MaxCycles
    /\ \A i \in 1..Len(calls) : calls[i].op # "external_move"
    /\ \E p \in PageIds, t \in TriggerTokens :
         /\ store[p] \in WrittenTokens
         /\ store' = [store EXCEPT ![p] = t]
         /\ calls' = Append(calls, Call("external_move", p, t, TRUE))
    /\ UNCHANGED << task, max_retries, pc, attempt, last_result, ret,
                    running, spc, tasks, idx, cycles, signal, sig_idx >>
    /\ UNCHANGED dvars

\* the scheduler while nobody stops it: no stop, signal, interrupt or
\* cancellation, hence no break of the batch and no exit of the loop
SchedExtNext ==
    \/ ExternalMove
    \/ Run
    \/ PollCycle
    \/ BatchDone
    \/ HandTask
    \/ TaskReturned
    \/ TaskRaised
    \/ SleepDone
    \/ MoveToInProgress
    \/ Attempt
    \/ Backoff
    \/ Exhausted
    \/ StorePlan
    \/ StoreSession
    \/ MoveToDone
    \/ ReportFailure

SchedExtSpec == SchedExtInit /\ [][SchedExtNext]_vars


\* an in-progress stage write that took effect
IsEffectiveInProgress(c) ==
    /\ c.op = "update_task_status"
    /\ c.ok
    /\ c.arg \in { StatusValue(e[2][1]) : e \in AI_TRANSITIONS }

\* C27: every stage write names one of Planning, Planned, ImplementInProgress,
\* ImplementDone, none of them a trigger stage; after an in-progress write
\* for a page took effect the page is handed to the processor again only
\* after somebody else has moved it; and the in-progress writes of a page
\* that took effect are no more than its placements into a trigger stage.
C27_NoRedispatch ==
    /\ WrittenTokens = { "Planning", "Planned", "ImplementInProgress", "ImplementDone" }
    /\ WrittenTokens \cap TriggerTokens = { }
    /\ \A i \in 1..Len(calls) :
         /\ calls[i].op = "update_task_status" => calls[i].arg \in WrittenTokens
         /\ IsEffectiveInProgress(calls[i])
              => \A k \in (i + 1)..Len(calls) :
                   (calls[k].op = "process_task" /\ calls[k].page = calls[i].page)
                   => \E j \in (i + 1)..(k - 1) :
                        /\ calls[j].op = "external_move"
                        /\ calls[j].page = calls[i].page
    /\ \A p \in PageIds :
         Len(SelectSeq(calls, LAMBDA c : c.page = p /\ IsEffectiveInProgress(c)))
         <= Len(SelectSeq(calls, LAMBDA c : c.page = p /\ c.op = "external_move"))
            + IF p = "page-1" THEN 1 ELSE 0

\* the agent failed for page-1, the page stayed in its in-progress stage,
\* was moved back and was handed again
C27_Witness ==
    \E i, j, k \in 1..Len(calls) :
        /\ i < j
        /\ j < k
        /\ IsEffectiveInProgress(calls[i])
        /\ calls[j].op = "external_move"
        /\ calls[k].op = "process_task"
        /\ calls[i].page = calls[k].page
        /\ calls[j].page = calls[k].page
        /\ \E a \in (i + 1)..(j - 1) : calls[a].op = "add_comment" /\ calls[a].arg.tag = "Error"

\* C30: every adapter call in a run of the scheduler is made with the
\* session id of the task as it was read, which is empty: the tasks of a
\* batch carry no session id, and no launch has a --resume argument, also
\* for a page for which a session id was saved as a comment before.
C30_NoResume ==
    /\ \A i \in 1..Len(tasks) : tasks[i].session_id = ""
    /\ pc # "idle" => task.session_id = ""
    /\ \A i \in 1..Len(calls) :
         /\ calls[i].op \in { "run_planning", "run_implementation" }
              => calls[i].arg.session_id = ""
         /\ calls[i].op = "subprocess_run" => calls[i].arg.resume = ""

\* a session id was saved for a page and the agent was launched for that
\* page again later
C30_Witness ==
    \E i, k \in 1..Len(calls) :
        /\ i < k
        /\ calls[i].op = "add_comment"
        /\ calls[i].ok
        /\ calls[i].arg.tag = "Session ID"
        /\ calls[k].op = "subprocess_run"
        /\ calls[k].page = calls[i].page
        /\ calls[k].arg.resume = ""

====
